---- MODULE Spec2Model ----
(***************************************************************************)
(* Model of the price-comparison core of shopping_web_final_with_reqs:     *)
(* ShoppingAPI.search_products (cache + non-blocking lock, shopping_api.py), *)
(* the aggregation functions _find_best_deals, _calculate_savings and      *)
(* _format_results, and of server_scraper.ServerScraper the fetch loop     *)
(* search_google_shopping, _extract_real_product_link and _format_price.   *)
(*                                                                         *)
(* Prices of the aggregation are Python floats in the source; here they    *)
(* are natural numbers (a price unit), which keeps every comparison of the *)
(* source exact.  Strings of the source that are only compared for         *)
(* equality are TLA+ strings; a query and a price text are sequences of    *)
(* one-character strings so that strip(), lower() and the regular          *)
(* expressions are computed.  The formatted "preco" text, the percent part *)
(* of "economia" and the "timestamp" text are presentation only and are    *)
(* left out of a result.                                                   *)
(***************************************************************************)
EXTENDS Integers, Sequences, FiniteSets, TLC

\* ------------------------------------------------------------------ bounds
\* calls of search_products started in one behaviour
MaxCalls == 3
\* largest price a scraped candidate can carry
MaxPrice == 3
\* longest combined result list handed to _find_best_deals (SpecAgg)
MaxResults == 3
\* most product elements on one fetched page (SpecFetch)
MaxPage == 2
\* largest max_results a caller of search_google_shopping asks for (SpecFetch)
MaxWanted == 2
\* most parameters in the query string of a link (SpecLink)
MaxParams == 2
\* longest generated price text (SpecPrice)
MaxText == 5
\* most raw items one source hands to its extractor (SpecIntake)
MaxRaw == 3
\* most containers one selector matches in a page (SpecExtract)
MaxContainers == 3

\* --------------------------------------------------------- program constants
\* shopping_api.py:45  "if current_time - cache_time < 300"
TTL == 300

\* float('inf'): larger than every price
Inf == MaxPrice + 1

\* Python None for an object (a deal, a result) and for a string (a link)
None == [tag |-> "None"]
NoLink == "None"

\* the site list of _find_best_deals / _format_results, in configured order
Sites == <<"Google Shopping", "Mercado Livre", "Kabum">>
SiteSet == {Sites[i] : i \in 1..Len(Sites)}

\* Two request threads call search_products concurrently, each one call after
\* another without end.
Callers == {1, 2}

\* The instants at which the clock (time.time()) is observed: the start, the
\* last second inside the TTL of an entry stamped 0, and the first outside.
Instants == {0, TTL - 1, TTL}

\* ----------------------------------------------------------------- queries
\* The queries submitted: empty, blank, a plain one, its padded upper-case
\* variant, another key, and one holding a path separator.
Queries ==
    { <<>>, <<" ">>, <<"a">>, <<" ", "A">>, <<"b">>, <<"a", "/">> }

IsSpace(c) == c = " "

RECURSIVE LStrip(_)
LStrip(s) == IF s # <<>> /\ IsSpace(Head(s)) THEN LStrip(Tail(s)) ELSE s

RECURSIVE RStrip(_)
RStrip(s) ==
    IF s # <<>> /\ IsSpace(s[Len(s)]) THEN RStrip(SubSeq(s, 1, Len(s) - 1)) ELSE s

\* str.strip()
Strip(s) == RStrip(LStrip(s))

LowerChar(c) == IF c = "A" THEN "a" ELSE c

\* str.lower()
Lower(s) == [i \in 1..Len(s) |-> LowerChar(s[i])]

\* variant: only the empty string is refused, strip() is forgotten
IsBlankNoStrip(q) == q = <<>>

\* "not query or not query.strip()"
IsBlank(q) == q = <<>> \/ Strip(q) = <<>>

\* variant: the key keeps the letter case of the query
CacheKeyNoLower(q) == q

\* cache_key = query.lower(), query already stripped
CacheKey(q) == Lower(q)

\* ------------------------------------------------------------ candidates
Links == {"u", NoLink}

\* A scraped candidate, as the search_* methods of ProductScraper append it:
\* the price is truthy ("if price:"), so it is never 0.
Candidates ==
    [nome : {"p"}, preco : 1..MaxPrice, link : Links, site : SiteSet]

SiteIdx(site) == CHOOSE i \in 1..Len(Sites) : Sites[i] = site

\* all_results = google_results + ml_results + kabum_results
Grouped(s) ==
    \A i, j \in 1..Len(s) : i < j => SiteIdx(s[i].site) <= SiteIdx(s[j].site)

SeqsUpTo(S, n) == UNION {[1..k -> S] : k \in 0..n}

\* what search_all_sites can return, up to n candidates out of C
ScrapeOutcomes(C, n) == {s \in SeqsUpTo(C, n) : Grouped(s)}

\* The scrapes of the concurrent model: every site yields nothing (no match,
\* a timeout, an exception caught in its search_* method), or Mercado Livre
\* alone yields one offer.
UnitOffer(site) == [nome |-> "p", preco |-> 1, link |-> "u", site |-> site]

UnitScrapes == { <<>>, <<UnitOffer("Mercado Livre")>> }

\* ---------------------------------------------------------- aggregation
\* variant: the last element of least price
MinByPrecoLast(seq) ==
    seq[CHOOSE i \in 1..Len(seq) :
            \A j \in 1..Len(seq) :
                \/ seq[i].preco < seq[j].preco
                \/ seq[i].preco = seq[j].preco /\ i >= j]

\* Python min(seq, key=lambda x: x["preco"]): the first element of least price
MinByPreco(seq) ==
    seq[CHOOSE i \in 1..Len(seq) :
            \A j \in 1..Len(seq) :
                \/ seq[i].preco < seq[j].preco
                \/ seq[i].preco = seq[j].preco /\ i <= j]

\* ProductScraper.get_cart_link: None without a url, else the url itself
get_cart_link(product_url, site) ==
    IF product_url = NoLink THEN NoLink ELSE product_url

\* [r for r in results if r["site"] == site]
SiteResults(results, site) == SelectSeq(results, LAMBDA r : r.site = site)

\* the per-site part of _find_best_deals
BestOfSite(results, site) ==
    LET site_results == SiteResults(results, site)
    IN  IF site_results # <<>>
        THEN LET best_deal == MinByPreco(site_results)
             IN  [nome |-> best_deal.nome, preco |-> best_deal.preco,
                  link |-> best_deal.link, site |-> best_deal.site,
                  cart_link |-> get_cart_link(best_deal.link, site)]
        ELSE None

\* variant: the last site of the list is left out of valid_deals
ValidDealsShort(per_site) ==
    SelectSeq([i \in 1..(Len(Sites) - 1) |-> per_site[Sites[i]]],
              LAMBDA d : d # None)

\* valid_deals: the per-site deals that are not None, in the order of Sites
ValidDeals(per_site) ==
    SelectSeq([i \in 1..Len(Sites) |-> per_site[Sites[i]]], LAMBDA d : d # None)

\* variant: the first valid deal is taken for the cheapest
BestOverallFirst(valid_deals) ==
    IF valid_deals # <<>> THEN valid_deals[1] ELSE None

\* best_overall = min(valid_deals, key=preco) when valid_deals is not empty
BestOverall(valid_deals) ==
    IF valid_deals # <<>> THEN MinByPreco(valid_deals) ELSE None

\* ShoppingAPI._find_best_deals
find_best_deals(results) ==
    LET per_site == [site \in SiteSet |-> BestOfSite(results, site)]
    IN  [sites |-> per_site, melhor |-> BestOverall(ValidDeals(per_site))]

\* the prices _calculate_savings compares the best price with
RunnerUpPrices(best_price, site_infos) ==
    {site_infos[s].preco_valor : s \in
        {x \in SiteSet : /\ site_infos[x].preco_valor # Inf
                         /\ site_infos[x].preco_valor > best_price}}

\* variant: max(prices)
SetMax(S) == CHOOSE x \in S : \A y \in S : x >= y

\* second_best = min(prices)
SetMin(S) == CHOOSE x \in S : \A y \in S : x <= y

\* ShoppingAPI._calculate_savings
calculate_savings(best_price, site_infos) ==
    LET prices == RunnerUpPrices(best_price, site_infos)
    IN  IF prices = {}
        THEN [texto |-> "Unico preco disponivel", savings |-> 0]
        ELSE [texto |-> "Economia", savings |-> SetMin(prices) - best_price]

\* one entry of output["results"]
SiteInfo(deal) ==
    IF deal # None
    THEN [nome |-> deal.nome, preco_valor |-> deal.preco, link |-> deal.link,
          cart_link |-> deal.cart_link]
    ELSE [nome |-> "Nenhum produto encontrado", preco_valor |-> Inf,
          link |-> NoLink, cart_link |-> NoLink]

\* ShoppingAPI._format_results
format_results(best_deals, q) ==
    LET site_infos == [site \in SiteSet |-> SiteInfo(best_deals.sites[site])]
        best == best_deals.melhor
    IN  [query |-> q, results |-> site_infos,
         best_overall |->
            IF best # None
            THEN [site |-> best.site, nome |-> best.nome,
                  preco_valor |-> best.preco,
                  economia |-> calculate_savings(best.preco, site_infos),
                  link |-> best.link, cart_link |-> best.cart_link]
            ELSE None]

\* query_slug = formatted_results["query"].lower().replace(" ", "_")[:30]
QuerySlug(q) ==
    LET low == Lower(q)
        slug == [i \in 1..Len(low) |-> IF low[i] = " " THEN "_" ELSE low[i]]
    IN  SubSeq(slug, 1, IF Len(slug) < 30 THEN Len(slug) ELSE 30)

\* ShoppingAPI._save_results: open(os.path.join(results_dir, filename), 'w')
\* raises FileNotFoundError when the file name holds a "/" after its first
\* character, for it then names a directory under results_dir that nothing
\* creates.
SaveRaises(q) ==
    LET slug == QuerySlug(q)
    IN  \E i \in 2..Len(slug) : slug[i] = "/" /\ slug[1] # "/"

\* ============================================ server_scraper.ServerScraper
\* server_scraper.py:82  "self.max_retries = 3"
max_retries == 3

\* server_scraper.py:83  "self.retry_delay = 3"
retry_delay == 3

\* the targets of search_google_shopping, in the order they are tried
urls_to_try == <<"google.com", "google.com.br", "google.com lnms">>

\* One product container of a page, as the field selectors see it: the name
\* found or the default, the value _format_price made of the price text
\* (NoPrice for None), and whether reading its fields raises.
NameNotFound == "Nome não encontrado"

\* _format_price returning None (lines 336, 343, 362)
NoPrice == -1

Element(nome, preco) == [nome |-> nome, preco |-> preco, raises |-> FALSE]

\* the elements of the pages of SpecFetch: one with name and price, one
\* without a price, one without a name
Elements == {Element("p", 1), Element("p", 0), Element(NameNotFound, 1)}

\* What one attempt meets: session.get raising Timeout or another
\* RequestException (no response), raise_for_status raising on a status of
\* 400 or more, anything else raising once the response is there, or a page
\* with or without a bot-challenge marker.
Responses ==
    [kind : {"timeout", "connection_error", "http_error", "exception"},
     challenge : {FALSE}, elements : {<<>>}]
    \cup [kind : {"page"}, challenge : BOOLEAN,
          elements : SeqsUpTo(Elements, MaxPage)]

\* lines 203-210
container_selectors ==
    <<"div.sh-dgr__content",
      "div.sh-dlr__list-result",
      "div.sh-pr__product-results-grid div.sh-pr__product-result",
      "div[data-docid]",
      ".i0X6df",
      ".u30d4">>

Selectors == 1..Len(container_selectors)

\* a page as soup.select sees it: the containers each selector matches
NoMatch == [s \in Selectors |-> <<>>]

\* a page whose containers all match the first selector
SoupOf(elems) == [s \in Selectors |-> IF s = 1 THEN elems ELSE <<>>]

\* variant: the last selector that matches wins
LastMatching(soup) ==
    IF \A s \in Selectors : soup[s] = <<>> THEN 0
    ELSE CHOOSE s \in Selectors :
            soup[s] # <<>> /\ \A later \in Selectors : later > s => soup[later] = <<>>

\* lines 212-219: the first selector of the list that matches something,
\* 0 when the for-loop reaches its else
FirstMatching(soup) ==
    IF \A s \in Selectors : soup[s] = <<>> THEN 0
    ELSE CHOOSE s \in Selectors :
            soup[s] # <<>> /\ \A earlier \in Selectors : earlier < s => soup[earlier] = <<>>

\* variant: a price of 0.0 counts as a price
TruthyNotNone(p) == p # NoPrice

\* "if price": neither None nor 0.0
Truthy(p) == p # NoPrice /\ p # 0

\* variant: the default name is taken as a name
AcceptedAnyName(e) == Truthy(e.preco)

\* "if price and name != 'Nome não encontrado'"
Accepted(e) == Truthy(e.preco) /\ e.nome # NameNotFound

\* lines 245-250
ProductData(e) == [nome |-> e.nome, preco |-> e.preco, site |-> "Google Shopping"]

\* the loop of _extract_google_shopping_products: containers in page order,
\* stopping once extracted_count >= max_results; a container that raises
\* is left by the except of line 257
RECURSIVE ExtractLoop(_, _, _)
ExtractLoop(elems, wanted, acc) ==
    IF elems = <<>> \/ Len(acc) >= wanted THEN acc
    ELSE IF ~Head(elems).raises /\ Accepted(Head(elems))
         THEN ExtractLoop(Tail(elems), wanted, Append(acc, ProductData(Head(elems))))
         ELSE ExtractLoop(Tail(elems), wanted, acc)

extract_google_shopping_products(soup, wanted) ==
    IF FirstMatching(soup) = 0 THEN <<>>
    ELSE ExtractLoop(soup[FirstMatching(soup)], wanted, <<>>)

\* The pages of SpecExtract: a container has a name and a price, or lacks one
\* of them, or raises; one selector matches a list of them, the selectors before it
\* match nothing, and at most one selector after it matches another
\* container.
Raising == [nome |-> "p", preco |-> 1, raises |-> TRUE]

Container(nome, preco) == [nome |-> nome, preco |-> preco, raises |-> FALSE]

Containers ==
    {Container("p", 1), Container("q", 2), Container(NameNotFound, 1),
     Container("p", NoPrice), Container("p", 0), Raising}

Decoy == [nome |-> "decoy", preco |-> 1, raises |-> FALSE]

SoupWith(k, list, d) ==
    [s \in Selectors |-> IF s = k THEN list ELSE IF s = d THEN <<Decoy>> ELSE <<>>]

Soups(n) ==
    {NoMatch}
    \cup UNION {{SoupWith(k, list, d) :
                   list \in SeqsUpTo(Containers, n) \ {<<>>},
                   d \in {0} \cup {s \in Selectors : s > k}} : k \in Selectors}

\* variant: the marker is not looked for
HasChallengeNever(r) == FALSE

\* lines 145-149: the body holds a CAPTCHA / unusual-traffic marker
HasChallenge(r) == r.kind = "page" /\ r.challenge

\* the local products after the attempt: the extraction of a parsed page,
\* nothing when the attempt raised or stopped at the marker
ProductsOf(r, wanted) ==
    IF r.kind = "page" /\ ~HasChallenge(r)
    THEN extract_google_shopping_products(SoupOf(r.elements), wanted)
    ELSE <<>>

\* variant: the list of products is never taken for non-empty
FoundNever(prods) == FALSE

\* "if products:"
Found(prods) == prods # <<>>

\* results[:max_results]
Truncate(seq, n) == SubSeq(seq, 1, IF Len(seq) < n THEN Len(seq) ELSE n)

\* variant: one attempt more than max_retries
RetriesLeftOneMore(a) == a < max_retries

\* "for attempt in range(self.max_retries)": another attempt follows attempt a
RetriesLeft(a) == a < max_retries - 1

\* "for url in urls_to_try": another target follows target u
TargetsLeft(u) == u < Len(urls_to_try)

\* variant: the same delay before every attempt
WaitTimeFlat(a) == retry_delay

\* "wait_time = self.retry_delay * (attempt + 1)"
WaitTime(a) == retry_delay * (a + 1)

\* the attempt leaves the name response bound ('response' in locals())
BindsResponse(r) == r.kind \in {"page", "http_error", "exception"}

\* the attempt calls _save_html_on_error: at the marker (line 147), for a
\* page without product (line 165), and in the handlers of lines 169-176 when
\* a response, of this attempt or of an earlier one, is bound
SavesHtml(r, wanted, bound) ==
    \/ HasChallenge(r)
    \/ r.kind = "page" /\ ~Found(ProductsOf(r, wanted))
    \/ r.kind \in {"http_error", "exception"}
    \/ r.kind = "connection_error" /\ bound

\* variant: _save_html_on_error lets the failure of its write out
SaveEscapesOnFailure(write_ok) == ~write_ok

\* lines 88-94: the write is inside try / except Exception, nothing gets out
SaveEscapes(write_ok) == FALSE

\* --------------------------------------------- _extract_real_product_link
\* A link is the sequence of its parts as written: the scheme and host, the
\* path segments, the "?" and the parameters; a parameter carries its value,
\* itself such a sequence.  The empty sequence is the falsy link (None, "").
Tok(kind, name) == [kind |-> kind, name |-> name, value |-> <<>>]
Host(h) == Tok("host", h)
Seg(segment) == Tok("seg", segment)
QMark == Tok("?", "?")
Word(w) == Tok("text", w)
Param(n, v) == [kind |-> "param", name |-> n, value |-> v]

AbsentLink == <<>>

\* the values a parameter can carry: two shop urls, a Google url, a url that
\* urlparse refuses ("http://[": ValueError), a search term, and nothing
ShopUrl == <<Host("loja.example"), Seg("/p")>>
OtherShopUrl == <<Host("outra.example"), Seg("/p")>>
GoogleUrl == <<Host("www.google.com"), Seg("/search")>>
BrokenUrl == <<Host("[")>>
SearchTerm == <<Word("notebook")>>

ParamValues == {ShopUrl, OtherShopUrl, GoogleUrl, BrokenUrl, SearchTerm, <<>>}

\* possible_params = ['adurl', 'url', 'q', 'imgrefurl']
possible_params == <<"adurl", "url", "q", "imgrefurl">>

ParamTokens ==
    {Param(possible_params[i], v) : i \in 1..Len(possible_params), v \in ParamValues}

LinkHeads == {Host("www.google.com"), Host("loja.example"), Host("[")}

LinkPaths == {<<Seg("/url")>>, <<Seg("/aclk")>>}

\* the links handed to _extract_real_product_link
LinkInputs ==
    {AbsentLink} \cup
    { <<h>> \o path \o (IF qs = <<>> THEN <<>> ELSE <<QMark>> \o qs) :
        h \in LinkHeads, path \in LinkPaths, qs \in SeqsUpTo(ParamTokens, MaxParams) }

\* urlparse raises ValueError on a malformed host
UrlparseRaises(url) == url # <<>> /\ url[1] = Host("[")

\* urlparse: the host, the part before the first "?" and the part after it
QPos(url) ==
    IF \E i \in 1..Len(url) : url[i] = QMark
    THEN CHOOSE i \in 1..Len(url) :
            url[i] = QMark /\ \A j \in 1..(i - 1) : url[j] # QMark
    ELSE Len(url) + 1

urlparse(url) ==
    LET hosted == url # <<>> /\ url[1].kind = "host"
    IN  [netloc |-> IF hosted THEN url[1].name ELSE "",
         path |-> SubSeq(url, IF hosted THEN 2 ELSE 1, QPos(url) - 1),
         query |-> SubSeq(url, QPos(url) + 1, Len(url))]

\* parse_qs(query)[name]: the values given to name, blank ones dropped
ParamList(query, name) ==
    SelectSeq(query, LAMBDA tok : tok.kind = "param" /\ tok.name = name
                                  /\ tok.value # <<>>)

\* real_url.startswith('http')
StartsWithHttp(url) == url # <<>> /\ url[1].kind = "host"

\* 'google.com' in netloc
IsGoogleNetloc(netloc) == netloc = "www.google.com"

\* the loop over possible_params (lines 293-299): the first parameter whose
\* first value is an http url outside google.com; urlparse raising ends it
RECURSIVE ParamScan(_, _)
ParamScan(query, i) ==
    IF i > Len(possible_params)
    THEN [found |-> FALSE, raised |-> FALSE, url |-> AbsentLink]
    ELSE LET given == ParamList(query, possible_params[i])
         IN  IF given = <<>> THEN ParamScan(query, i + 1)
             ELSE LET real_url == given[1].value
                  IN  IF ~StartsWithHttp(real_url) THEN ParamScan(query, i + 1)
                      ELSE IF UrlparseRaises(real_url)
                      THEN [found |-> FALSE, raised |-> TRUE, url |-> AbsentLink]
                      ELSE IF ~IsGoogleNetloc(urlparse(real_url).netloc)
                      THEN [found |-> TRUE, raised |-> FALSE, url |-> real_url]
                      ELSE ParamScan(query, i + 1)

\* "'/url?' in parsed_url.path": the segment directly followed by a "?"
PathHas(path, segment) ==
    \E i \in 1..(Len(path) - 1) : path[i] = Seg(segment) /\ path[i + 1] = QMark

\* line 302: the link is one the redirect is followed for
FollowsRedirect(parsed) ==
    /\ parsed.netloc = "www.google.com"
    /\ (PathHas(parsed.path, "/url") \/ PathHas(parsed.path, "/aclk"))

\* what session.head(..., allow_redirects=True, timeout=5) can do: end at the
\* link itself, at a shop, at a Google page, or raise
ProbeOutcomes ==
    {"same", "external", "google", "timeout", "request_error", "exception"}

\* response.url
FinalUrl(google_link, outcome_of_head) ==
    CASE outcome_of_head = "same" -> google_link
      [] outcome_of_head = "external" -> ShopUrl
      [] OTHER -> GoogleUrl

\* variant: nothing is returned when the link cannot be resolved
FallbackAbsent(google_link) == AbsentLink

\* line 323: "return google_link"
Fallback(google_link) == google_link

\* ServerScraper._extract_real_product_link; head tells whether session.head
\* was called
extract_real_product_link(google_link, outcome_of_head) ==
    IF google_link = AbsentLink
    THEN [link |-> AbsentLink, head |-> FALSE]
    ELSE IF UrlparseRaises(google_link)
    THEN [link |-> Fallback(google_link), head |-> FALSE]
    ELSE LET parsed_url == urlparse(google_link)
             scan == ParamScan(parsed_url.query, 1)
         IN  IF scan.raised THEN [link |-> Fallback(google_link), head |-> FALSE]
             ELSE IF scan.found THEN [link |-> scan.url, head |-> FALSE]
             ELSE IF FollowsRedirect(parsed_url)
             THEN LET final_url == FinalUrl(google_link, outcome_of_head)
                  IN  IF /\ outcome_of_head \in {"same", "external", "google"}
                         /\ final_url # google_link
                         /\ ~IsGoogleNetloc(urlparse(final_url).netloc)
                      THEN [link |-> final_url, head |-> TRUE]
                      ELSE [link |-> Fallback(google_link), head |-> TRUE]
             ELSE [link |-> Fallback(google_link), head |-> FALSE]

\* ------------------------------------------------------------ _format_price
\* A price text is a sequence of characters; a price is the decimal number
\* the text denotes, kept exactly: its whole part and the digits of its
\* fraction without trailing zeros (99.90 and 99.9 are one value).
DigitChars == <<"0", "1", "2", "3", "4", "5", "6", "7", "8", "9">>

IsDigit(c) == \E i \in 1..Len(DigitChars) : DigitChars[i] = c

DigitVal(c) == (CHOOSE i \in 1..Len(DigitChars) : DigitChars[i] = c) - 1

\* the texts of the documented examples
TextBR == <<"1", ".", "2", "3", "4", ",", "5", "6">>
TextUS == <<"1", ",", "2", "3", "4", ".", "5", "6">>
TextReais == <<"R", "$", " ", "9", "9", ",", "9", "0", " ", "à", " ", "v", "i", "s", "t", "a">>
TextUnavailable == <<"p", "r", "e", "ç", "o", " ", "i", "n", "d", "i", "s", "p", "o", "n", "í", "v", "e", "l">>
TextTwoCommas == <<"1", ",", "2", "3", "4", ",", "5", "6">>
TextPix == <<"$", " ", "5", " ", "n", "o", " ", "p", "i", "x">>

\* the characters of the generated texts
PriceChars == {"1", ",", "."}

\* the price texts handed to _format_price
PriceTexts ==
    SeqsUpTo(PriceChars, MaxText)
    \cup {TextBR, TextUS, TextReais, TextUnavailable, TextTwoCommas, TextPix}

\* re.sub(r"(R\$|\$|€|£)\s*", "", price_str)
RECURSIVE RemoveCurrency(_)
RemoveCurrency(s) ==
    IF s = <<>> THEN <<>>
    ELSE IF Len(s) >= 2 /\ s[1] = "R" /\ s[2] = "$"
    THEN RemoveCurrency(LStrip(SubSeq(s, 3, Len(s))))
    ELSE IF s[1] \in {"$", "€", "£"}
    THEN RemoveCurrency(LStrip(Tail(s)))
    ELSE <<s[1]>> \o RemoveCurrency(Tail(s))

\* the alternatives of the split pattern: a partir de | à vista | no pix
SuffixPhrases ==
    { <<"a", " ", "p", "a", "r", "t", "i", "r", " ", "d", "e">>,
      <<"à", " ", "v", "i", "s", "t", "a">>,
      <<"n", "o", " ", "p", "i", "x">> }

\* re.IGNORECASE, for the letters of the model
StartsWithPhrase(s, phrase) ==
    /\ Len(s) >= Len(phrase)
    /\ \A j \in 1..Len(phrase) : LowerChar(s[j]) = LowerChar(phrase[j])

\* r"\s+(a partir de|à vista|no pix)" matches at position i
SuffixAt(s, i) ==
    /\ IsSpace(s[i])
    /\ \E phrase \in SuffixPhrases :
         StartsWithPhrase(LStrip(SubSeq(s, i, Len(s))), phrase)

\* re.split(pattern, price_str)[0]: the text before the leftmost match
BeforeSuffix(s) ==
    IF \E i \in 1..Len(s) : SuffixAt(s, i)
    THEN SubSeq(s, 1, (CHOOSE i \in 1..Len(s) :
                          SuffixAt(s, i) /\ \A j \in 1..(i - 1) : ~SuffixAt(s, j)) - 1)
    ELSE s

\* str.rfind: the 0-based index of the last c, -1 when there is none
RFind(s, c) ==
    IF \E i \in 1..Len(s) : s[i] = c
    THEN (CHOOSE i \in 1..Len(s) : s[i] = c /\ \A j \in (i + 1)..Len(s) : s[j] # c) - 1
    ELSE -1

\* str.replace(c, "")
Remove(s, c) == SelectSeq(s, LAMBDA x : x # c)

\* str.replace(c, d), one character for another
Replace(s, c, d) == [i \in 1..Len(s) |-> IF s[i] = c THEN d ELSE s[i]]

\* lines 344-349: the separators
ResolveSeparators(s) ==
    LET last_comma == RFind(s, ",")
        last_dot == RFind(s, ".")
    IN  IF last_comma > last_dot THEN Replace(Remove(s, "."), ",", ".")
        ELSE IF last_dot > last_comma THEN Remove(s, ",")
        ELSE Remove(s, ",")

\* re.sub(r"[^\d.]+", "", clean_price)
KeepNumeric(s) == SelectSeq(s, LAMBDA x : IsDigit(x) \/ x = ".")

RECURSIVE ToNat(_)
ToNat(digs) ==
    IF digs = <<>> THEN 0
    ELSE ToNat(SubSeq(digs, 1, Len(digs) - 1)) * 10 + DigitVal(digs[Len(digs)])

RECURSIVE DropTrailingZeros(_)
DropTrailingZeros(digs) ==
    IF digs # <<>> /\ digs[Len(digs)] = "0"
    THEN DropTrailingZeros(SubSeq(digs, 1, Len(digs) - 1))
    ELSE digs

\* float(clean_price) raises ValueError: no digit, or more than one point
FloatRaises(clean) ==
    \/ ~\E i \in 1..Len(clean) : IsDigit(clean[i])
    \/ \E i, j \in 1..Len(clean) : i # j /\ clean[i] = "." /\ clean[j] = "."

\* float(clean_price) for digits around at most one point
Float(clean) ==
    LET point == RFind(clean, ".") + 1
        whole == IF point = 0 THEN clean ELSE SubSeq(clean, 1, point - 1)
        fraction == IF point = 0 THEN <<>> ELSE SubSeq(clean, point + 1, Len(clean))
    IN  [whole |-> ToNat(whole), frac |-> DropTrailingZeros(fraction)]

\* ServerScraper._format_price
format_price(text) ==
    IF text = <<>> THEN None
    ELSE LET stripped == Strip(RemoveCurrency(text))
             amount == BeforeSuffix(stripped)
             clean_price == KeepNumeric(ResolveSeparators(amount))
         IN  IF clean_price = <<>> THEN None
             ELSE IF FloatRaises(clean_price) THEN None
             ELSE Float(clean_price)

\* ================================================== scraper.ProductScraper
\* self.driver = None
NoDriver == "None"

\* variant: a driver is set up whether or not there is one
NeedsDriverAlways(d) == TRUE

\* setup_selenium, lines 34-35: "if self.driver: return"
NeedsDriver(d) == d = NoDriver

\* How one search_* method can end once the driver is there: elements found,
\* the WebDriverWait timing out, or driver.get / find_elements raising; all
\* of it caught by the except of the method.
PageOutcomes == {"results", "timeout", "error"}

\* "if hasattr(self, 'driver') and self.driver"
HasDriver(d) == d # NoDriver

\* ============================================= the candidates of aggregation
\* The three extractors that build candidates: ServerScraper
\* ._extract_google_shopping_products, the search_* methods of ProductScraper,
\* and SerpApiClient._process_shopping_results.
Sources == {"server_scraper", "scraper", "serpapi"}

\* the price an item comes with: what the price text was normalised to, or
\* the extracted_price of SerpApi; NoPrice when there is none
RawPrices == {NoPrice} \cup 0..MaxPrice

RawItems(src) ==
    CASE src = "server_scraper" ->
           [nome : {"p", NameNotFound}, preco : RawPrices, site : {"Google Shopping"}]
      [] src = "scraper" ->
           [nome : {"p"}, preco : RawPrices, site : SiteSet]
      [] src = "serpapi" ->
           [nome : {"p"}, preco : RawPrices, site : {"Google Shopping"}]

\* serpapi_client.py lines 154-156: price stays None unless extracted_price
\* is there and truthy
SerpPrice(extracted_price) ==
    IF Truthy(extracted_price) THEN extracted_price ELSE NoPrice

\* the test each extractor makes before it appends
Kept(src, e) ==
    CASE src = "server_scraper" -> Accepted(e)
      [] src = "scraper" -> Truthy(e.preco)
      [] src = "serpapi" -> Truthy(SerpPrice(e.preco))

\* the dict appended
CandidateOf(e) == [nome |-> e.nome, preco |-> e.preco, link |-> "u", site |-> e.site]

\* ------------------------------------------------------------------ state
VARIABLES
    search_cache,   \* ShoppingAPI.search_cache: cache_key -> (time, results)
    search_lock,    \* ShoppingAPI.search_lock: TRUE while held
    now,            \* the clock read by time.time() and datetime.now()
    pc,             \* each caller's position in search_products
    arg,            \* the query each caller passed to search_products
    current_time,   \* the local current_time of each call
    result,         \* the local formatted_results / cache_results of each call
    outcome,        \* how each call ended (return value or exception)
    calls,          \* number of calls started so far
    agg_stage,      \* SpecAgg: position in the aggregation pipeline
    agg_results,    \* SpecAgg: the combined list handed to _find_best_deals
    agg_best,       \* SpecAgg: best_deals
    agg_output,     \* SpecAgg: the formatted output
    fetch_pc,       \* SpecFetch: position in search_google_shopping
    url_idx,        \* SpecFetch: index of the target (url) being tried
    attempt,        \* SpecFetch: the loop variable attempt
    max_results,    \* SpecFetch: the parameter max_results
    response,       \* SpecFetch: what the last attempt met
    products,       \* SpecFetch: the local products of the last attempt
    fetch_results,  \* SpecFetch: the local results, returned at the end
    requests_made,  \* SpecFetch: calls of session.get so far
    wait_time,      \* SpecFetch: the wait_time of the sleep in progress, else 0
    has_response,   \* SpecFetch: the local response is bound
    diag,           \* SpecFetch: the diagnostics write of the last attempt
    link_stage,     \* SpecLink: before or after _extract_real_product_link
    google_link,    \* SpecLink: the argument google_link
    probe,          \* SpecLink: what session.head did, if it was called
    real_product_link,  \* SpecLink: the value returned
    price_stage,    \* SpecPrice: before or after _format_price
    price_str,      \* SpecPrice: the argument price_str
    price,          \* SpecPrice: the value returned
    extract_pc,     \* SpecExtract: position in _extract_google_shopping_products
    page_soup,      \* SpecExtract: the argument soup
    extract_max,    \* SpecExtract: the argument max_results
    used_selector,  \* SpecExtract: index of the selector the loop broke at
    product_elements,   \* SpecExtract: the local product_elements
    next_element,   \* SpecExtract: index of the next container of the loop
    extracted,      \* SpecExtract: the local products
    sites_pc,       \* SpecSites: position in search_all_sites
    driver,         \* SpecSites: ProductScraper.driver
    created,        \* SpecSites: drivers webdriver.Chrome has built
    quits,          \* SpecSites: drivers whose quit() returned
    site_log,       \* SpecSites: how each search_* method ended so far
    intake_pc,      \* SpecIntake: position in the extraction and aggregation
    intake_source,  \* SpecIntake: the extractor at work
    raw_items,      \* SpecIntake: the items the extractor walks through
    intake_next,    \* SpecIntake: index of the next item
    intake_candidates,  \* SpecIntake: the list the extractor returns
    intake_best     \* SpecIntake: best_deals

vars ==
    <<search_cache, search_lock, now, pc, arg, current_time, result, outcome,
      calls, agg_stage, agg_results, agg_best, agg_output,
      fetch_pc, url_idx, attempt, max_results, response, products,
      fetch_results, requests_made, wait_time, has_response, diag,
      link_stage, google_link, probe, real_product_link,
      price_stage, price_str, price,
      extract_pc, page_soup, extract_max, used_selector, product_elements,
      next_element, extracted,
      sites_pc, driver, created, quits, site_log,
      intake_pc, intake_source, raw_items, intake_next, intake_candidates,
      intake_best>>

coordVars ==
    <<search_cache, search_lock, now, pc, arg, current_time, result, outcome,
      calls>>

aggVars == <<agg_stage, agg_results, agg_best, agg_output>>

fetchVars ==
    <<fetch_pc, url_idx, attempt, max_results, response, products,
      fetch_results, requests_made, wait_time, has_response, diag>>

linkVars == <<link_stage, google_link, probe, real_product_link>>

priceVars == <<price_stage, price_str, price>>

scraperVars == <<fetchVars, linkVars, priceVars>>

extractVars ==
    <<extract_pc, page_soup, extract_max, used_selector, product_elements,
      next_element, extracted>>

\* the variables of the specifications of single functions added below
sitesVars == <<sites_pc, driver, created, quits, site_log>>

intakeVars ==
    <<intake_pc, intake_source, raw_items, intake_next, intake_candidates,
      intake_best>>

restVars == <<extractVars, sitesVars, intakeVars>>

\* the local variable query after "query = query.strip()"
Query(t) == Strip(arg[t])

\* variant: the membership test never succeeds
InCacheNever(cache, key) == FALSE

\* "cache_key in self.search_cache"
InCache(cache, key) == key \in DOMAIN cache

\* variant: the five minutes are compared as 5, not as 300 seconds
CacheFreshMinutes(ctime, cache_time) == ctime - cache_time < TTL \div 60

\* "current_time - cache_time < 300"
CacheFresh(ctime, cache_time) == ctime - cache_time < TTL

\* variant: the result of acquire() is not looked at
TryAcquireUnchecked(lock) == TRUE

\* "self.search_lock.acquire(blocking=False)": TRUE when the lock is obtained
TryAcquire(lock) == ~lock

\* variant: the clock is read again when the entry is stored
StoredTimeNow(t) == now

\* the timestamp "self.search_cache[cache_key] = (current_time, ...)" stores
StoredTime(t) == current_time[t]

\* dict item assignment
DictPut(d, k, v) == [x \in DOMAIN d \cup {k} |-> IF x = k THEN v ELSE d[x]]

CoordInit ==
    /\ search_cache = <<>>
    /\ search_lock = FALSE
    /\ now = 0
    /\ pc = [t \in Callers |-> "idle"]
    /\ arg = [t \in Callers |-> <<>>]
    /\ current_time = [t \in Callers |-> 0]
    /\ result = [t \in Callers |-> None]
    /\ outcome = [t \in Callers |-> "none"]
    /\ calls = 0

AggIdle ==
    /\ agg_stage = "off"
    /\ agg_results = <<>>
    /\ agg_best = None
    /\ agg_output = None

NoResponse == [kind |-> "none", challenge |-> FALSE, elements |-> <<>>]

FetchIdle ==
    /\ fetch_pc = "off"
    /\ url_idx = 1
    /\ attempt = 0
    /\ max_results = 0
    /\ response = NoResponse
    /\ products = <<>>
    /\ fetch_results = <<>>
    /\ requests_made = 0
    /\ wait_time = 0
    /\ has_response = FALSE
    /\ diag = "none"

LinkIdle ==
    /\ link_stage = "off"
    /\ google_link = AbsentLink
    /\ probe = "not called"
    /\ real_product_link = AbsentLink

PriceIdle ==
    /\ price_stage = "off"
    /\ price_str = <<>>
    /\ price = None

ScraperIdle == FetchIdle /\ LinkIdle /\ PriceIdle

ExtractIdle ==
    /\ extract_pc = "idle"
    /\ page_soup = NoMatch
    /\ extract_max = 0
    /\ used_selector = 0
    /\ product_elements = <<>>
    /\ next_element = 1
    /\ extracted = <<>>

SitesIdle ==
    /\ sites_pc = "idle"
    /\ driver = NoDriver
    /\ created = 0
    /\ quits = 0
    /\ site_log = <<>>

IntakeIdle ==
    /\ intake_pc = "idle"
    /\ intake_source = "scraper"
    /\ raw_items = <<>>
    /\ intake_next = 1
    /\ intake_candidates = <<>>
    /\ intake_best = None

RestIdle == ExtractIdle /\ SitesIdle /\ IntakeIdle

\* ------------------------------------------------- search_products, by step
\* A thread whose previous call has ended (or that has made none) takes its
\* next request.  Lines 33-40: validation, strip, and the clock read.
Call(t) ==
    /\ pc[t] \in {"idle", "done"}
    /\ calls < MaxCalls
    /\ calls' = calls + 1
    /\ \E q \in Queries :
        /\ arg' = [arg EXCEPT ![t] = q]
        /\ result' = [result EXCEPT ![t] = None]
        /\ IF IsBlank(q)
           THEN /\ outcome' = [outcome EXCEPT ![t] = "InvalidQuery"]
                /\ pc' = [pc EXCEPT ![t] = "done"]
                /\ current_time' = [current_time EXCEPT ![t] = 0]
           ELSE /\ outcome' = [outcome EXCEPT ![t] = "none"]
                /\ current_time' = [current_time EXCEPT ![t] = now]
                /\ pc' = [pc EXCEPT ![t] = "check"]
    /\ UNCHANGED <<search_cache, search_lock, now>>
    /\ UNCHANGED <<aggVars, scraperVars, restVars>>

\* lines 42-47: the cache lookup
CheckCache(t) ==
    /\ pc[t] = "check"
    /\ LET key == CacheKey(Query(t))
       IN  IF /\ InCache(search_cache, key)
              /\ CacheFresh(current_time[t], search_cache[key].time)
           THEN /\ result' = [result EXCEPT ![t] = search_cache[key].res]
                /\ outcome' = [outcome EXCEPT ![t] = "cached"]
                /\ pc' = [pc EXCEPT ![t] = "done"]
           ELSE /\ pc' = [pc EXCEPT ![t] = "acquire"]
                /\ UNCHANGED <<result, outcome>>
    /\ UNCHANGED <<search_cache, search_lock, now, arg, current_time, calls>>
    /\ UNCHANGED <<aggVars, scraperVars, restVars>>

\* lines 50-51: the non-blocking acquire
Acquire(t) ==
    /\ pc[t] = "acquire"
    /\ IF TryAcquire(search_lock)
       THEN /\ search_lock' = TRUE
            /\ pc' = [pc EXCEPT ![t] = "aggregate"]
            /\ UNCHANGED outcome
       ELSE /\ outcome' = [outcome EXCEPT ![t] = "Busy"]
            /\ pc' = [pc EXCEPT ![t] = "done"]
            /\ UNCHANGED search_lock
    /\ UNCHANGED <<search_cache, now, arg, current_time, result, calls>>
    /\ UNCHANGED <<aggVars, scraperVars, restVars>>

\* variant: the cache is written before the JSON file is saved
AggregateCachesFirst(t) ==
    /\ pc[t] = "aggregate"
    /\ \E scraped \in UnitScrapes :
        LET formatted == format_results(find_best_deals(scraped), Query(t))
        IN  /\ search_cache' =
                 DictPut(search_cache, CacheKey(Query(t)),
                         [time |-> StoredTime(t), res |-> formatted])
            /\ IF SaveRaises(formatted.query)
               THEN /\ outcome' = [outcome EXCEPT ![t] = "error"]
                    /\ pc' = [pc EXCEPT ![t] = "release"]
                    /\ UNCHANGED result
               ELSE /\ result' = [result EXCEPT ![t] = formatted]
                    /\ pc' = [pc EXCEPT ![t] = "store"]
                    /\ UNCHANGED outcome
    /\ UNCHANGED <<search_lock, now, arg, current_time, calls>>
    /\ UNCHANGED <<aggVars, scraperVars, restVars>>

\* lines 55-68: scrape, best deals, formatting, and saving the JSON file
Aggregate(t) ==
    /\ pc[t] = "aggregate"
    /\ \E scraped \in UnitScrapes :
        LET formatted == format_results(find_best_deals(scraped), Query(t))
        IN  IF SaveRaises(formatted.query)
            THEN /\ outcome' = [outcome EXCEPT ![t] = "error"]
                 /\ pc' = [pc EXCEPT ![t] = "release"]
                 /\ UNCHANGED result
            ELSE /\ result' = [result EXCEPT ![t] = formatted]
                 /\ pc' = [pc EXCEPT ![t] = "store"]
                 /\ UNCHANGED outcome
    /\ UNCHANGED <<search_cache, search_lock, now, arg, current_time, calls>>
    /\ UNCHANGED <<aggVars, scraperVars, restVars>>

\* lines 70-73: the cache write and the return value
Store(t) ==
    /\ pc[t] = "store"
    /\ search_cache' =
         DictPut(search_cache, CacheKey(Query(t)),
                 [time |-> StoredTime(t), res |-> result[t]])
    /\ outcome' = [outcome EXCEPT ![t] = "fresh"]
    /\ pc' = [pc EXCEPT ![t] = "release"]
    /\ UNCHANGED <<search_lock, now, arg, current_time, result, calls>>
    /\ UNCHANGED <<aggVars, scraperVars, restVars>>

\* variant: the call ends without releasing the lock
ReleaseKeepsLock(t) ==
    /\ pc[t] = "release"
    /\ pc' = [pc EXCEPT ![t] = "done"]
    /\ UNCHANGED <<search_cache, search_lock, now, arg, current_time, result,
                   outcome, calls>>
    /\ UNCHANGED <<aggVars, scraperVars, restVars>>

\* lines 78-79: finally: self.search_lock.release()
Release(t) ==
    /\ pc[t] = "release"
    /\ search_lock' = FALSE
    /\ pc' = [pc EXCEPT ![t] = "done"]
    /\ UNCHANGED <<search_cache, now, arg, current_time, result, outcome, calls>>
    /\ UNCHANGED <<aggVars, scraperVars, restVars>>

\* time passes
Tick ==
    /\ \E later \in Instants : later > now /\ now' = later
    /\ UNCHANGED <<search_cache, search_lock, pc, arg, current_time, result, outcome, calls>>
    /\ UNCHANGED <<aggVars, scraperVars, restVars>>

Init == CoordInit /\ AggIdle /\ ScraperIdle /\ RestIdle

Next ==
    \/ \E t \in Callers : Call(t)
    \/ \E t \in Callers : CheckCache(t)
    \/ \E t \in Callers : Acquire(t)
    \/ \E t \in Callers : Aggregate(t)
    \/ \E t \in Callers : Store(t)
    \/ \E t \in Callers : Release(t)
    \/ Tick

Spec == Init /\ [][Next]_vars

\* ------------------------------- search_products, the lookup in two steps
\* The lookup of lines 42-47 is two operations on the dict, and another
\* thread can run between them: the membership test of line 43 ...
TestMembership(t) ==
    /\ pc[t] = "check"
    /\ IF InCache(search_cache, CacheKey(Query(t)))
       THEN pc' = [pc EXCEPT ![t] = "read"]
       ELSE pc' = [pc EXCEPT ![t] = "acquire"]
    /\ UNCHANGED <<search_cache, search_lock, now, arg, current_time, result,
                   outcome, calls>>
    /\ UNCHANGED <<aggVars, scraperVars, restVars>>

\* ... and the entry read of line 44 with the age test of lines 45-47
ReadEntry(t) ==
    /\ pc[t] = "read"
    /\ LET entry == search_cache[CacheKey(Query(t))]
       IN  IF CacheFresh(current_time[t], entry.time)
           THEN /\ result' = [result EXCEPT ![t] = entry.res]
                /\ outcome' = [outcome EXCEPT ![t] = "cached"]
                /\ pc' = [pc EXCEPT ![t] = "done"]
           ELSE /\ pc' = [pc EXCEPT ![t] = "acquire"]
                /\ UNCHANGED <<result, outcome>>
    /\ UNCHANGED <<search_cache, search_lock, now, arg, current_time, calls>>
    /\ UNCHANGED <<aggVars, scraperVars, restVars>>

LookupNext ==
    \/ \E t \in Callers : Call(t)
    \/ \E t \in Callers : TestMembership(t)
    \/ \E t \in Callers : ReadEntry(t)
    \/ \E t \in Callers : Acquire(t)
    \/ \E t \in Callers : Aggregate(t)
    \/ \E t \in Callers : Store(t)
    \/ \E t \in Callers : Release(t)
    \/ Tick

SpecLookup == Init /\ [][LookupNext]_vars

\* ------------------------------------------- the aggregation functions alone
AggInit ==
    /\ CoordInit
    /\ ScraperIdle
    /\ RestIdle
    /\ agg_stage = "scraped"
    /\ agg_results \in ScrapeOutcomes(Candidates, MaxResults)
    /\ agg_best = None
    /\ agg_output = None

FindBestDeals ==
    /\ agg_stage = "scraped"
    /\ agg_best' = find_best_deals(agg_results)
    /\ agg_stage' = "best"
    /\ UNCHANGED <<agg_results, agg_output>>
    /\ UNCHANGED <<coordVars, scraperVars, restVars>>

FormatResults ==
    /\ agg_stage = "best"
    /\ agg_output' = format_results(agg_best, <<"a">>)
    /\ agg_stage' = "formatted"
    /\ UNCHANGED <<agg_results, agg_best>>
    /\ UNCHANGED <<coordVars, scraperVars, restVars>>

AggNext == FindBestDeals \/ FormatResults

SpecAgg == AggInit /\ [][AggNext]_vars

\* ------------------------------------- ServerScraper.search_google_shopping
FetchInit ==
    /\ CoordInit
    /\ RestIdle
    /\ AggIdle
    /\ LinkIdle
    /\ PriceIdle
    /\ fetch_pc = "request"
    /\ url_idx = 1
    /\ attempt = 0
    /\ max_results \in 0..MaxWanted
    /\ response = NoResponse
    /\ products = <<>>
    /\ fetch_results = <<>>
    /\ requests_made = 0
    /\ wait_time = 0
    /\ has_response = FALSE
    /\ diag = "none"

\* the end of the retry loop of one target: the next target, or line 186
NextTarget ==
    IF TargetsLeft(url_idx)
    THEN /\ url_idx' = url_idx + 1
         /\ attempt' = 0
         /\ fetch_pc' = "request"
    ELSE /\ fetch_pc' = "returned"
         /\ UNCHANGED <<url_idx, attempt>>

\* lines 127-176: one attempt, from the request to its outcome
Request ==
    /\ fetch_pc = "request"
    /\ requests_made' = requests_made + 1
    /\ \E r \in Responses :
        \E write_ok \in IF SavesHtml(r, max_results, has_response)
                         THEN BOOLEAN ELSE {TRUE} :
        LET saves == SavesHtml(r, max_results, has_response)
        IN  /\ response' = r
            /\ products' = ProductsOf(r, max_results)
            /\ has_response' = (has_response \/ BindsResponse(r))
            /\ diag' = IF ~saves THEN "none"
                       ELSE IF write_ok THEN "written" ELSE "failed"
            /\ IF saves /\ SaveEscapes(write_ok)
               THEN \* the exception of the write leaves the function
                    /\ fetch_pc' = "raised"
                    /\ UNCHANGED <<url_idx, attempt, fetch_results>>
               ELSE IF HasChallenge(r)
               THEN \* break: the retries of this target are left
                    /\ NextTarget
                    /\ UNCHANGED fetch_results
               ELSE IF Found(ProductsOf(r, max_results))
               THEN \* lines 158-162
                    /\ fetch_results' =
                         Truncate(fetch_results \o ProductsOf(r, max_results),
                                  max_results)
                    /\ fetch_pc' = "returned"
                    /\ UNCHANGED <<url_idx, attempt>>
               ELSE \* no product, or an exception caught at lines 167-176
                    /\ IF RetriesLeft(attempt)
                       THEN /\ fetch_pc' = "wait"
                            /\ UNCHANGED <<url_idx, attempt>>
                       ELSE NextTarget
                    /\ UNCHANGED fetch_results
    /\ wait_time' = IF fetch_pc' = "wait" THEN WaitTime(attempt) ELSE 0
    /\ UNCHANGED max_results
    /\ UNCHANGED <<coordVars, aggVars, linkVars, priceVars, restVars>>

\* line 182: the sleep is over, the for-loop goes to its next attempt
Wait ==
    /\ fetch_pc = "wait"
    /\ wait_time' = 0
    /\ attempt' = attempt + 1
    /\ fetch_pc' = "request"
    /\ UNCHANGED <<url_idx, max_results, response, products, fetch_results,
                   requests_made, has_response, diag>>
    /\ UNCHANGED <<coordVars, aggVars, linkVars, priceVars, restVars>>

FetchNext == Request \/ Wait

\* The thread that runs the function keeps running: every sleep returns and
\* every request ends in a response, an exception or its timeout.
SpecFetch == FetchInit /\ [][FetchNext]_vars /\ WF_vars(FetchNext)

\* ------------------------------- ServerScraper._extract_real_product_link
LinkInit ==
    /\ CoordInit
    /\ RestIdle
    /\ AggIdle
    /\ FetchIdle
    /\ PriceIdle
    /\ link_stage = "raw"
    /\ google_link \in LinkInputs
    /\ probe = "not called"
    /\ real_product_link = AbsentLink

ResolveLink ==
    /\ link_stage = "raw"
    /\ \E outcome_of_head \in ProbeOutcomes :
         LET returned == extract_real_product_link(google_link, outcome_of_head)
         IN  /\ real_product_link' = returned.link
             /\ probe' = IF returned.head THEN outcome_of_head ELSE "not called"
    /\ link_stage' = "resolved"
    /\ UNCHANGED google_link
    /\ UNCHANGED <<coordVars, aggVars, fetchVars, priceVars, restVars>>

SpecLink == LinkInit /\ [][ResolveLink]_vars

\* -------------------------------------------- ServerScraper._format_price
PriceInit ==
    /\ CoordInit
    /\ RestIdle
    /\ AggIdle
    /\ FetchIdle
    /\ LinkIdle
    /\ price_stage = "raw"
    /\ price_str \in PriceTexts
    /\ price = None

FormatPrice ==
    /\ price_stage = "raw"
    /\ price' = format_price(price_str)
    /\ price_stage' = "formatted"
    /\ UNCHANGED price_str
    /\ UNCHANGED <<coordVars, aggVars, fetchVars, linkVars, restVars>>

SpecPrice == PriceInit /\ [][FormatPrice]_vars

\* ------------------------------- _extract_google_shopping_products, stepwise
ExtractInit ==
    /\ CoordInit
    /\ AggIdle
    /\ ScraperIdle
    /\ SitesIdle
    /\ IntakeIdle
    /\ extract_pc = "select"
    /\ page_soup \in Soups(MaxContainers)
    /\ extract_max \in 0..MaxWanted
    /\ used_selector = 0
    /\ product_elements = <<>>
    /\ next_element = 1
    /\ extracted = <<>>

\* lines 212-219: the for / else over container_selectors
SelectContainers ==
    /\ extract_pc = "select"
    /\ used_selector' = FirstMatching(page_soup)
    /\ IF FirstMatching(page_soup) = 0
       THEN /\ extract_pc' = "returned"
            /\ UNCHANGED product_elements
       ELSE /\ extract_pc' = "loop"
            /\ product_elements' = page_soup[FirstMatching(page_soup)]
    /\ UNCHANGED <<page_soup, extract_max, next_element, extracted>>
    /\ UNCHANGED <<coordVars, aggVars, scraperVars, sitesVars, intakeVars>>

\* lines 227-258: one container of the loop
ExtractElement ==
    /\ extract_pc = "loop"
    /\ next_element <= Len(product_elements)
    /\ Len(extracted) < extract_max
    /\ LET e == product_elements[next_element]
       IN  extracted' = IF ~e.raises /\ Accepted(e)
                        THEN Append(extracted, ProductData(e))
                        ELSE extracted
    /\ next_element' = next_element + 1
    /\ UNCHANGED <<extract_pc, page_soup, extract_max, used_selector, product_elements>>
    /\ UNCHANGED <<coordVars, aggVars, scraperVars, sitesVars, intakeVars>>

\* lines 228-229 and 260-261: the break, or the end of the list, and the return
ExtractReturn ==
    /\ extract_pc = "loop"
    /\ next_element > Len(product_elements) \/ Len(extracted) >= extract_max
    /\ extract_pc' = "returned"
    /\ UNCHANGED <<page_soup, extract_max, used_selector, product_elements,
                   next_element, extracted>>
    /\ UNCHANGED <<coordVars, aggVars, scraperVars, sitesVars, intakeVars>>

ExtractNext == SelectContainers \/ ExtractElement \/ ExtractReturn

SpecExtract == ExtractInit /\ [][ExtractNext]_vars

\* ------------------------------------------- ProductScraper.search_all_sites
\* One call on a fresh ProductScraper, as search_products makes it (line 55).
SitesInit ==
    /\ CoordInit
    /\ AggIdle
    /\ ScraperIdle
    /\ ExtractIdle
    /\ IntakeIdle
    /\ sites_pc = "search"
    /\ driver = NoDriver
    /\ created = 0
    /\ quits = 0
    /\ site_log = <<>>

\* search_google_shopping, search_mercado_livre, search_kabum (site i of
\* Sites): setup_selenium, then the page; whatever raises is caught by the
\* method, which returns what it has
SearchSite(i) ==
    /\ sites_pc = "search"
    /\ i = Len(site_log) + 1
    /\ \/ \* setup_selenium builds the driver, or finds one, and the page is read
          /\ \E ended \in PageOutcomes :
               site_log' = Append(site_log, [site |-> Sites[i], ended |-> ended,
                                             reused |-> ~NeedsDriver(driver)])
          /\ driver' = "chrome"
          /\ created' = IF NeedsDriver(driver) THEN created + 1 ELSE created
       \/ \* webdriver.Chrome raises (lines 50-52): self.driver is not assigned
          /\ NeedsDriver(driver)
          /\ site_log' = Append(site_log, [site |-> Sites[i], ended |-> "no driver",
                                           reused |-> FALSE])
          /\ UNCHANGED <<driver, created>>
    /\ sites_pc' = IF i < Len(Sites) THEN "search" ELSE "close"
    /\ UNCHANGED quits
    /\ UNCHANGED <<coordVars, aggVars, scraperVars, extractVars, intakeVars>>

\* lines 271-273 and 54-59: finally: self.close_driver(), then the return of
\* line 266; quit() raising leaves the function with the field as it was
CloseDriver ==
    /\ sites_pc = "close"
    /\ IF HasDriver(driver)
       THEN \/ /\ driver' = NoDriver
               /\ quits' = quits + 1
               /\ sites_pc' = "returned"
            \/ /\ sites_pc' = "raised"
               /\ UNCHANGED <<driver, quits>>
       ELSE /\ sites_pc' = "returned"
            /\ UNCHANGED <<driver, quits>>
    /\ UNCHANGED <<created, site_log>>
    /\ UNCHANGED <<coordVars, aggVars, scraperVars, extractVars, intakeVars>>

SitesNext == (\E i \in 1..Len(Sites) : SearchSite(i)) \/ CloseDriver

SpecSites == SitesInit /\ [][SitesNext]_vars

\* ------------------------------------- from the extractors to the best deals
IntakeInit ==
    /\ CoordInit
    /\ AggIdle
    /\ ScraperIdle
    /\ ExtractIdle
    /\ SitesIdle
    /\ intake_pc = "extract"
    /\ intake_source \in Sources
    /\ raw_items \in ScrapeOutcomes(RawItems(intake_source), MaxRaw)
    /\ intake_next = 1
    /\ intake_candidates = <<>>
    /\ intake_best = None

\* one item of the extractor's loop: appended if it passes the test
TakeItem ==
    /\ intake_pc = "extract"
    /\ intake_next <= Len(raw_items)
    /\ intake_candidates' =
         IF Kept(intake_source, raw_items[intake_next])
         THEN Append(intake_candidates, CandidateOf(raw_items[intake_next]))
         ELSE intake_candidates
    /\ intake_next' = intake_next + 1
    /\ UNCHANGED <<intake_pc, intake_source, raw_items, intake_best>>
    /\ UNCHANGED <<coordVars, aggVars, scraperVars, extractVars, sitesVars>>

\* shopping_api.py line 62: best_deals = self._find_best_deals(results, scraper)
IntakeBestDeals ==
    /\ intake_pc = "extract"
    /\ intake_next > Len(raw_items)
    /\ intake_best' = find_best_deals(intake_candidates)
    /\ intake_pc' = "best"
    /\ UNCHANGED <<intake_source, raw_items, intake_next, intake_candidates>>
    /\ UNCHANGED <<coordVars, aggVars, scraperVars, extractVars, sitesVars>>

IntakeNext == TakeItem \/ IntakeBestDeals

SpecIntake == IntakeInit /\ [][IntakeNext]_vars

\* ================================================================= claims
Key(t) == CacheKey(Query(t))

\* a caller between its successful acquire and its release
InFlight(t) == pc[t] \in {"aggregate", "store", "release"}

InFlightSet == {t \in Callers : InFlight(t)}

\* a text that is empty or made of spaces only
BlankText(q) == \A i \in 1..Len(q) : q[i] = " "

LeastOf(S) == CHOOSE x \in S : \A y \in S : x <= y

Formatted == agg_stage = "formatted"

PriceOf(site) == agg_output.results[site].preco_valor

\* --- C1: of two calls of search_products made at the same instant for the
\* same key, neither served from the cache, exactly one runs the aggregation
\* and the other is refused with Busy: they never both run an aggregation.
C1_OneAggregatesOtherBusy ==
    \A t, u \in Callers :
        ( /\ t # u
          /\ pc[t] = "done" /\ pc[u] = "done"
          /\ outcome[t] \in {"fresh", "Busy"} /\ outcome[u] \in {"fresh", "Busy"}
          /\ Key(t) = Key(u)
          /\ current_time[t] = current_time[u] )
        => ( \/ outcome[t] = "fresh" /\ outcome[u] = "Busy"
             \/ outcome[t] = "Busy" /\ outcome[u] = "fresh" )

\* --- C2: at most one aggregation is in flight at any time, whatever the
\* queries, and a caller that reaches the lock while another caller is in
\* flight ends at once with Busy (it does not wait).
C2_SingleFlight ==
    [][ /\ Cardinality(InFlightSet') <= 1
        /\ \A t \in Callers :
            ( /\ pc[t] = "acquire" /\ pc'[t] # "acquire"
              /\ \E u \in Callers : u # t /\ InFlight(u) )
            => (pc'[t] = "done" /\ outcome'[t] = "Busy") ]_vars

C2_Witness ==
    \E t, u \in Callers :
        /\ InFlight(t)
        /\ pc[u] = "done" /\ outcome[u] = "Busy"
        /\ Key(t) # Key(u)

\* --- C3: a search whose key has a stored entry less than TTL seconds old
\* ends in its lookup step with that stored result, without taking the lock,
\* without scraping and without touching the cache.
C3_CachedWithinTTL ==
    [][ \A t \in Callers :
          ( /\ pc[t] = "check" /\ pc'[t] # "check"
            /\ Key(t) \in DOMAIN search_cache
            /\ current_time[t] - search_cache[Key(t)].time < TTL )
          => ( /\ pc'[t] = "done" /\ outcome'[t] = "cached"
               /\ result'[t] = search_cache[Key(t)].res
               /\ search_cache' = search_cache
               /\ search_lock' = search_lock ) ]_vars

C3_Witness ==
    \E t, u \in Callers :
        /\ t # u
        /\ pc[t] = "done" /\ outcome[t] = "fresh" /\ current_time[t] = 0
        /\ pc[u] = "done" /\ outcome[u] = "cached" /\ current_time[u] = TTL - 1
        /\ Key(t) = Key(u)
        /\ result[u] = result[t]

C5_AdmittedNeverRaises ==
    \A t \in Callers :
        (pc[t] = "done" /\ outcome[t] \in {"fresh", "error"})
        => (outcome[t] = "fresh" /\ result[t] # None)

\* --- C6: when best_overall is not null its price is the least preco_valor
\* of the per-site entries, a sentinel counting as +infinity.
C6_BestIsMinimum ==
    (Formatted /\ agg_output.best_overall # None)
    => agg_output.best_overall.preco_valor = LeastOf({PriceOf(s) : s \in SiteSet})

C6_Witness ==
    /\ Formatted
    /\ agg_output.best_overall # None
    /\ agg_output.best_overall.site = "Kabum"
    /\ PriceOf("Google Shopping") # Inf
    /\ PriceOf("Google Shopping") > PriceOf("Kabum")

\* --- C7: best_overall is null exactly when every site's entry is the
\* no-offer sentinel (price +infinity, link null); one candidate in the
\* scraped list is enough for best_overall to be non-null.
IsSentinel(info) == info.preco_valor = Inf /\ info.link = NoLink

C7_NullIffAllSentinel ==
    Formatted =>
        /\ (agg_output.best_overall = None)
             <=> (\A s \in SiteSet : IsSentinel(agg_output.results[s]))
        /\ (agg_results # <<>>) => (agg_output.best_overall # None)

C7_Witness ==
    /\ Formatted
    /\ Len(agg_results) = 1
    /\ IsSentinel(agg_output.results["Google Shopping"])
    /\ IsSentinel(agg_output.results["Mercado Livre"])
    /\ agg_output.best_overall # None
    /\ agg_output.best_overall.site = "Kabum"

\* --- C8 (as claimed): the savings is the least best price of the OTHER
\* sites minus the best price, also when that other price equals the best
\* price, and the single-offer text appears exactly when no other site has an
\* offer.
OtherPrices == {PriceOf(s) : s \in SiteSet \ {agg_output.best_overall.site}} \ {Inf}

C8_SavingsAgainstRunnerUp ==
    (Formatted /\ agg_output.best_overall # None)
    => IF OtherPrices = {}
       THEN agg_output.best_overall.economia.texto = "Unico preco disponivel"
       ELSE /\ agg_output.best_overall.economia.texto = "Economia"
            /\ agg_output.best_overall.economia.savings
                 = LeastOf(OtherPrices) - agg_output.best_overall.preco_valor

\* --- C8 (amended): the savings is the least best price of the other sites
\* that is strictly higher than the best price, minus the best price; the
\* single-price text appears exactly when no other site has a strictly higher
\* best price.
HigherPrices == {v \in OtherPrices : v > agg_output.best_overall.preco_valor}

C8_SavingsAgainstNextHigher ==
    (Formatted /\ agg_output.best_overall # None)
    => IF HigherPrices = {}
       THEN agg_output.best_overall.economia.texto = "Unico preco disponivel"
       ELSE /\ agg_output.best_overall.economia.texto = "Economia"
            /\ agg_output.best_overall.economia.savings
                 = LeastOf(HigherPrices) - agg_output.best_overall.preco_valor

C8_Witness ==
    /\ Formatted
    /\ PriceOf("Google Shopping") = 3
    /\ PriceOf("Mercado Livre") = 1
    /\ PriceOf("Kabum") = Inf
    /\ agg_output.best_overall.site = "Mercado Livre"
    /\ agg_output.best_overall.economia.savings = 2

\* --- C9: when several sites share the least price, best_overall is the
\* deal of the one that comes first in Sites.
TiedSites ==
    {i \in 1..Len(Sites) : PriceOf(Sites[i]) = LeastOf({PriceOf(s) : s \in SiteSet})}

C10_StampedAtStore ==
    [][ \A k \in DOMAIN search_cache' :
          (k \notin DOMAIN search_cache \/ search_cache'[k] # search_cache[k])
          => search_cache'[k].time = now ]_vars

\* --- C10 (amended): an entry written into the cache carries the time the
\* writing call read when it started (its current_time); a search whose key
\* has an entry is a hit exactly when its own current_time minus the entry's
\* time is less than TTL.
C10_StampedAtStart ==
    [][ /\ \A t \in Callers :
            (pc[t] = "store" /\ pc'[t] # "store")
            => search_cache'[Key(t)].time = current_time[t]
        /\ \A t \in Callers :
            ( /\ pc[t] = "check" /\ pc'[t] # "check"
              /\ Key(t) \in DOMAIN search_cache )
            => ( (pc'[t] = "done" /\ outcome'[t] = "cached")
                 <=> current_time[t] - search_cache[Key(t)].time < TTL ) ]_vars

\* the entry of a call that started at 0 is written while the clock shows TTL,
\* and a search of the same key that started at TTL has missed
C10_Witness ==
    \E t, u \in Callers :
        /\ t # u
        /\ now = TTL
        /\ pc[t] = "release" /\ outcome[t] = "fresh" /\ current_time[t] = 0
        /\ search_cache[Key(t)].time = 0
        /\ Key(u) = Key(t) /\ current_time[u] = TTL
        /\ pc[u] = "acquire"

\* --- C11: an entry of the cache is read-only until it expires: the value
\* stored under a key changes only in the step of a search whose start time
\* is at least TTL after the time of the entry it replaces.
C11_ReplacedOnlyAfterExpiry ==
    [][ \A k \in DOMAIN search_cache :
          (search_cache'[k] # search_cache[k])
          => \E t \in Callers :
                /\ pc[t] = "store" /\ Key(t) = k
                /\ current_time[t] - search_cache[k].time >= TTL ]_vars

\* --- C12: a search whose key has an entry less than TTL old ends its lookup
\* with the stored result and not with Busy, also when another caller is in
\* flight for a different key and holds the lock.
C12_HitWhileOtherInFlight ==
    [][ \A t \in Callers :
          ( /\ pc[t] = "check" /\ pc'[t] # "check"
            /\ Key(t) \in DOMAIN search_cache
            /\ current_time[t] - search_cache[Key(t)].time < TTL
            /\ search_lock
            /\ \E u \in Callers : u # t /\ InFlight(u) /\ Key(u) # Key(t) )
          => ( /\ pc'[t] = "done"
               /\ outcome'[t] = "cached" /\ outcome'[t] # "Busy"
               /\ result'[t] = search_cache[Key(t)].res ) ]_vars

C12_Witness ==
    \E t, u \in Callers :
        /\ t # u
        /\ search_lock /\ InFlight(u) /\ Key(u) # Key(t)
        /\ pc[t] = "done" /\ outcome[t] = "cached"
        /\ Key(t) \in DOMAIN search_cache
        /\ result[t] = search_cache[Key(t)].res
        /\ Key(u) \notin DOMAIN search_cache

\* --- C14: two queries that differ only in letter case or in surrounding
\* spaces share one cache entry: a search within TTL of an entry made for
\* such a query is a hit on that entry, and the cache never holds two entries
\* for such queries.
NonSpaces(q) == {i \in 1..Len(q) : q[i] # " "}

\* the text between the first and the last character that is not a space
Core(q) ==
    IF NonSpaces(q) = {} THEN <<>>
    ELSE SubSeq(q, LeastOf(NonSpaces(q)),
                CHOOSE i \in NonSpaces(q) : \A j \in NonSpaces(q) : j <= i)

SameLetter(c, d) == c = d \/ {c, d} = {"a", "A"}

DiffersOnlyInCaseOrPadding(q1, q2) ==
    /\ Len(Core(q1)) = Len(Core(q2))
    /\ \A i \in 1..Len(Core(q1)) : SameLetter(Core(q1)[i], Core(q2)[i])

C14_SameEntryUpToCaseAndPadding ==
    [][ /\ \A t \in Callers :
            (pc[t] = "check" /\ pc'[t] # "check")
            => \A k \in DOMAIN search_cache :
                 ( /\ DiffersOnlyInCaseOrPadding(search_cache[k].res.query, arg[t])
                   /\ current_time[t] - search_cache[k].time < TTL )
                 => ( /\ pc'[t] = "done" /\ outcome'[t] = "cached"
                      /\ result'[t] = search_cache[k].res )
        /\ \A k1, k2 \in DOMAIN search_cache' :
            DiffersOnlyInCaseOrPadding(search_cache'[k1].res.query,
                                       search_cache'[k2].res.query)
            => k1 = k2 ]_vars

C14_Witness ==
    \E t, u \in Callers :
        /\ t # u
        /\ pc[t] = "done" /\ outcome[t] = "fresh" /\ arg[t] = <<"a">>
        /\ pc[u] = "done" /\ outcome[u] = "cached" /\ arg[u] = <<" ", "A">>
        /\ result[u] = result[t]
        /\ DOMAIN search_cache = {<<"a">>}

\* --- C15: the result a successful call returns, fresh or served from the
\* cache, carries in its query field the query submitted in that call (as
\* passed, or as passed with its surrounding spaces removed).
C15_QueryFieldIsOwnQuery ==
    \A t \in Callers :
        (pc[t] = "done" /\ outcome[t] \in {"fresh", "cached"})
        => result[t].query \in {arg[t], Strip(arg[t])}

\* --- C13: reads and writes of the cache exclude each other: no caller
\* writes an entry while another caller is inside its read of the cache, that
\* is, between its membership test and its entry read.
C13_ReadWriteExclusive ==
    [][ \A u \in Callers :
          (pc[u] = "store" /\ pc'[u] # "store")
          => \A t \in Callers \ {u} : pc[t] # "read" ]_vars

\* --- C16: search_google_shopping always ends by returning a list; it makes
\* at most 3 x 3 = 9 requests, and when no attempt produced a product (every
\* one met a timeout, an error status, a challenge, an empty extraction or
\* another exception) the list it returns is empty.
C16_FetchTerminates ==
    /\ [](requests_made <= 9)
    /\ [](requests_made <= Len(urls_to_try) * max_retries)
    /\ []((fetch_pc = "returned" /\ ~(response.kind = "page" /\ products # <<>>))
            => fetch_results = <<>>)
    /\ <>(fetch_pc = "returned")

C16_Witness ==
    /\ fetch_pc = "returned"
    /\ requests_made = 9
    /\ response.kind = "timeout"
    /\ max_results = MaxWanted
    /\ fetch_results = <<>>

C20_FirstProductsEndFetch ==
    [][ /\ ( /\ requests_made' = requests_made + 1
             /\ products' # <<>> )
           => ( /\ fetch_pc' = "returned"
                /\ fetch_results' = Truncate(products', max_results)
                /\ Len(fetch_results') <= max_results )
        /\ (fetch_pc = "returned") => (requests_made' = requests_made) ]_vars

C20_Witness ==
    /\ fetch_pc = "returned"
    /\ url_idx = 2 /\ attempt = 1
    /\ requests_made = 5
    /\ max_results = 1
    /\ Len(response.elements) = 2 /\ \A i \in 1..2 : Accepted(response.elements[i])
    /\ Len(fetch_results) = 1

\* --- C17: _extract_real_product_link always returns, and never loses a
\* link: an absent link gives absent, a present link never gives absent, and
\* a present link none of whose destination parameters holds a url outside
\* Google, and whose redirect probe (if made) did not end outside Google,
\* raised or timed out, comes back unchanged.
IsExternalUrl(url) ==
    /\ url # <<>>
    /\ url[1].kind = "host"
    /\ url[1].name \notin {"www.google.com", "["}

HasExternalParam(url) ==
    \E i \in 1..Len(url) :
        /\ url[i].kind = "param"
        /\ url[i].name \in {"adurl", "url", "q", "imgrefurl"}
        /\ IsExternalUrl(url[i].value)

C17_LinkNeverLost ==
    link_stage = "resolved" =>
        /\ (google_link = AbsentLink) => (real_product_link = AbsentLink)
        /\ (google_link # AbsentLink) => (real_product_link # AbsentLink)
        /\ ( /\ google_link # AbsentLink
             /\ ~HasExternalParam(google_link)
             /\ probe # "external" )
           => real_product_link = google_link

C17_Witness ==
    /\ link_stage = "resolved"
    /\ google_link = <<Host("www.google.com"), Seg("/url"), QMark,
                       Param("url", GoogleUrl), Param("q", SearchTerm)>>
    /\ real_product_link = google_link

\* --- C18: the separators are resolved by the last comma and the last
\* period: when the last comma follows the last period, the periods go and
\* the last comma is the decimal point of the price; when the last period
\* follows the last comma, the commas go; "1.234,56" and "1,234.56" give
\* 1234.56, "R$ 99,90 à vista" gives 99.90, and an empty or digit-free text
\* gives no price.
Amount == BeforeSuffix(Strip(RemoveCurrency(price_str)))

\* the amount without its periods and with its last comma as the point
LastCommaAsPoint(s) ==
    LET last == RFind(s, ",") + 1
        marked == [i \in 1..Len(s) |-> IF i = last THEN "point" ELSE s[i]]
    IN  Replace(Remove(marked, "."), "point", ".")

\* the number a text of digits and separators denotes, if any
ValueOf(s) ==
    IF FloatRaises(KeepNumeric(s)) THEN None ELSE Float(KeepNumeric(s))

C18_SeparatorsByLastPosition ==
    price_stage = "formatted" =>
        /\ (RFind(Amount, ",") > RFind(Amount, "."))
             => price = ValueOf(LastCommaAsPoint(Amount))
        /\ (RFind(Amount, ".") > RFind(Amount, ","))
             => price = ValueOf(Remove(Amount, ","))
        /\ (price_str = TextBR) => price = [whole |-> 1234, frac |-> <<"5", "6">>]
        /\ (price_str = TextUS) => price = [whole |-> 1234, frac |-> <<"5", "6">>]
        /\ (price_str = TextReais) => price = [whole |-> 99, frac |-> <<"9">>]
        /\ (~\E i \in 1..Len(price_str) : IsDigit(price_str[i])) => price = None

\* --- C21: an attempt that ends in a timeout, an error status or an empty
\* extraction is followed, after a sleep, by the next attempt on the same
\* target as long as fewer than max_retries attempts were made on it; the
\* sleep is retry_delay times the number of the attempt just made, so each
\* sleep on a target is strictly longer than the one before it.
FailedAttempt(r, prods) ==
    \/ r.kind \in {"timeout", "http_error"}
    \/ r.kind = "page" /\ ~r.challenge /\ prods = <<>>

C21_RetryWithGrowingBackoff ==
    [][ /\ ( /\ requests_made' = requests_made + 1
             /\ FailedAttempt(response', products')
             /\ attempt + 1 < max_retries )
           => ( /\ fetch_pc' = "wait"
                /\ url_idx' = url_idx /\ attempt' = attempt
                /\ wait_time' = retry_delay * (attempt + 1)
                /\ \A earlier \in 1..attempt : wait_time' > retry_delay * earlier )
        /\ (fetch_pc = "wait")
           => ( /\ fetch_pc' = "request"
                /\ url_idx' = url_idx /\ attempt' = attempt + 1
                /\ requests_made' = requests_made )
        /\ attempt' < max_retries ]_vars

C21_Witness ==
    /\ fetch_pc = "wait"
    /\ url_idx = 2 /\ attempt = 1
    /\ wait_time = 6
    /\ response.kind = "http_error"
    /\ requests_made = 5

\* --- C22: whether the diagnostics file of an attempt is written or the
\* write fails makes no difference to the fetch: the step of an attempt is
\* decided by the response alone, and the function goes on, or returns,
\* exactly as it does when nothing is saved.
C22_DiagnosticsNeverMatter ==
    [][ (requests_made' = requests_made + 1)
        => /\ fetch_pc' # "raised"
           /\ products' = ProductsOf(response', max_results)
           /\ <<fetch_pc', url_idx', attempt', fetch_results'>> =
                IF HasChallenge(response') \/ (~Found(products') /\ ~RetriesLeft(attempt))
                THEN IF TargetsLeft(url_idx)
                     THEN <<"request", url_idx + 1, 0, fetch_results>>
                     ELSE <<"returned", url_idx, attempt, fetch_results>>
                ELSE IF Found(products')
                THEN <<"returned", url_idx, attempt,
                       Truncate(fetch_results \o products', max_results)>>
                ELSE <<"wait", url_idx, attempt, fetch_results>> ]_vars

C22_Witness ==
    /\ diag = "failed"
    /\ response.kind = "page" /\ response.challenge
    /\ fetch_pc = "request" /\ url_idx = 3 /\ attempt = 0
    /\ requests_made = 4

\* --- C23: the container selectors are tried in the order of the list and
\* the first one that matches anything supplies every container; a later
\* selector is used only when all the selectors before it match nothing, and
\* the candidates of one call all come from the containers of that one
\* selector.
FromContainer(c, e) == c.nome = e.nome /\ c.preco = e.preco

C23_FirstMatchingSelectorOnly ==
    extract_pc \in {"loop", "returned"}
    => IF \A s \in Selectors : page_soup[s] = <<>>
       THEN used_selector = 0 /\ extracted = <<>> /\ extract_pc = "returned"
       ELSE /\ used_selector \in Selectors
            /\ page_soup[used_selector] # <<>>
            /\ \A s \in Selectors : s < used_selector => page_soup[s] = <<>>
            /\ product_elements = page_soup[used_selector]
            /\ \A i \in 1..Len(extracted) :
                 \E j \in 1..Len(page_soup[used_selector]) :
                    FromContainer(extracted[i], page_soup[used_selector][j])

C23_Witness ==
    /\ extract_pc = "returned"
    /\ used_selector = 3
    /\ page_soup[5] = <<Decoy>>
    /\ Len(extracted) = 2

\* --- C24: a container becomes a candidate only if its name is not the
\* placeholder and its price text gave a price; a container that is rejected,
\* or whose extraction raises, does not stop the containers after it; the
\* candidates are at most max_results and stand in document order.
GoodContainer(e) == ~e.raises /\ e.nome # NameNotFound /\ e.preco > 0

GoodAt == {i \in 1..Len(product_elements) : GoodContainer(product_elements[i])}

\* the position of the n-th good container of the document
NthGood(n) == CHOOSE i \in GoodAt : Cardinality({m \in GoodAt : m < i}) = n - 1

C24_GoodContainersInOrder ==
    /\ Len(extracted) <= extract_max
    /\ extract_pc = "returned"
       => /\ Len(extracted) = LeastOf({Cardinality(GoodAt), extract_max})
          /\ \A n \in 1..Len(extracted) :
               /\ FromContainer(extracted[n], product_elements[NthGood(n)])
               /\ extracted[n].nome # NameNotFound
               /\ extracted[n].preco > 0

C24_Witness ==
    /\ extract_pc = "returned"
    /\ Len(product_elements) = 3
    /\ product_elements[1].raises
    /\ product_elements[2].nome = NameNotFound
    /\ GoodContainer(product_elements[3])
    /\ Len(extracted) = 1
    /\ extract_max = 2

\* --- C25: the destination parameters are read in the priority adurl, url,
\* q, imgrefurl, and the link returned is the value of the first of them that
\* starts with a URL scheme and whose host is not the search engine's: a
\* parameter that points back to the search engine, or that holds no such
\* value, is passed over in favour of a later one.
DestinationParams == <<"adurl", "url", "q", "imgrefurl">>

\* the value a parameter has in the query string of the link, <<>> if none
ValueIn(url, name) ==
    LET at == {i \in 1..Len(url) : /\ url[i].kind = "param"
                                   /\ url[i].name = name
                                   /\ url[i].value # <<>>}
    IN  IF at = {} THEN <<>> ELSE url[LeastOf(at)].value

Qualifying(url) ==
    {n \in 1..Len(DestinationParams) : IsExternalUrl(ValueIn(url, DestinationParams[n]))}

C25_FirstExternalParamWins ==
    ( /\ link_stage = "resolved"
      /\ google_link # AbsentLink
      /\ google_link[1] # Host("[")
      /\ Qualifying(google_link) # {} )
    => real_product_link =
          ValueIn(google_link, DestinationParams[LeastOf(Qualifying(google_link))])

\* --- C26: when no destination parameter gives an external link and the link
\* is a redirect endpoint of the search engine (host www.google.com, path /url
\* or /aclk), the HEAD probe is issued, and its final URL is returned when it
\* differs from the link and its host is not the search engine's.
IsRedirectEndpoint(url) ==
    /\ url # AbsentLink
    /\ url[1] = Host("www.google.com")
    /\ Len(url) >= 2
    /\ url[2] \in {Seg("/url"), Seg("/aclk")}

NoParamRaises(url) ==
    \A i \in 1..Len(url) : url[i].kind = "param" => url[i].value # BrokenUrl

C26_ProbeIssuedForRedirectEndpoint ==
    ( /\ link_stage = "resolved"
      /\ IsRedirectEndpoint(google_link)
      /\ Qualifying(google_link) = {}
      /\ NoParamRaises(google_link) )
    => /\ probe # "not called"
       /\ (probe = "external") => (real_product_link = ShopUrl)

\* --- C27: the lock is held exactly while one caller is between its
\* successful acquire and its release, and never by two; it is released when
\* the aggregation returned and when it raised; a call that ended with Busy,
\* InvalidQuery or a cached result never releases it; once every call has
\* ended the lock is free.
Ended(t) == pc[t] \in {"idle", "done"}

C27_LockFollowsTheSearch ==
    /\ [](/\ search_lock <=> (InFlightSet # {})
          /\ Cardinality(InFlightSet) <= 1
          /\ (\A t \in Callers : Ended(t)) => ~search_lock)
    /\ [][ /\ (search_lock /\ ~search_lock')
              => \E t \in Callers :
                    /\ pc[t] = "release" /\ pc'[t] = "done"
                    /\ outcome[t] \in {"fresh", "error"}
           /\ \A t \in Callers :
                ( /\ pc[t] # "done" /\ pc'[t] = "done"
                  /\ outcome'[t] \in {"Busy", "InvalidQuery", "cached"} )
                => search_lock' = search_lock
           /\ \A t \in Callers :
                (pc[t] = "release" /\ pc'[t] # "release") => ~search_lock' ]_vars

C27_Witness ==
    /\ pc[1] = "done" /\ outcome[1] = "error"
    /\ pc[2] = "done" /\ outcome[2] = "Busy"
    /\ calls = 3
    /\ ~search_lock

\* --- C28: the cache is written only by a search that went through every
\* step (scrape, best deals, formatting, saving the JSON file); a search that
\* raises, and a call rejected with Busy or InvalidQuery, leave the cache as
\* it was and report the error, so the next search of that query misses again.
C28_CacheOnlyAfterFullSearch ==
    [][ /\ (search_cache' # search_cache)
           => \E t \in Callers :
                 /\ pc[t] = "store" /\ pc'[t] = "release"
                 /\ outcome'[t] = "fresh"
                 /\ result[t] # None
                 /\ ~SaveRaises(result[t].query)
                 /\ InCache(search_cache', Key(t))
                 /\ search_cache'[Key(t)].res = result[t]
                 /\ \A k \in DOMAIN search_cache :
                       k # Key(t) => /\ k \in DOMAIN search_cache'
                                    /\ search_cache'[k] = search_cache[k]
        /\ \A t \in Callers :
             (outcome'[t] # outcome[t] /\ outcome'[t] \in {"error", "Busy", "InvalidQuery"})
             => /\ search_cache' = search_cache
                /\ result'[t] = None
        /\ \A t, u \in Callers :
             ( /\ pc[t] = "check" /\ pc'[t] # "check"
               /\ pc[u] = "done" /\ outcome[u] = "error"
               /\ Key(t) = Key(u) )
             => pc'[t] = "acquire" ]_vars

C28_Witness ==
    /\ pc[1] = "done" /\ outcome[1] = "error"
    /\ pc[2] = "aggregate" /\ Key(2) = Key(1)
    /\ search_cache # <<>>
    /\ ~InCache(search_cache, Key(1))

\* --- C29: when search_all_sites has returned, whatever way the three site
\* searches ended, the driver has been quit and the driver field is None; a
\* call builds at most one driver, and the sites after the one that built it
\* use that same driver.
C29_OneDriverQuitAtReturn ==
    /\ [](/\ created <= 1
          /\ (sites_pc = "returned")
             => (driver = NoDriver /\ quits = created /\ Len(site_log) = Len(Sites))
          /\ \A i \in 1..Len(site_log) :
               site_log[i].reused
               <=> \E j \in 1..(i - 1) : site_log[j].ended \in PageOutcomes)
    /\ [][ (driver # NoDriver /\ sites_pc = "search")
           => (driver' = driver /\ created' = created) ]_vars

C29_Witness ==
    /\ sites_pc = "returned"
    /\ created = 1 /\ quits = 1
    /\ site_log[1].ended = "no driver"
    /\ site_log[2].ended = "timeout" /\ ~site_log[2].reused
    /\ site_log[3].ended = "results" /\ site_log[3].reused

\* --- C30: every candidate handed to the aggregation has a price above 0: an
\* item whose price text normalised to 0 is dropped exactly like one without
\* a price, so neither a per-source best deal nor the best overall has price 0.
PricedItem(src, e) ==
    /\ e.preco # NoPrice
    /\ e.preco # 0
    /\ (src = "server_scraper") => (e.nome # NameNotFound)

C30_NoZeroPrice ==
    /\ \A i \in 1..Len(intake_candidates) : intake_candidates[i].preco > 0
    /\ Len(intake_candidates) =
         Cardinality({i \in 1..(intake_next - 1) : PricedItem(intake_source, raw_items[i])})
    /\ (intake_pc = "best")
       => /\ \A site \in SiteSet :
               intake_best.sites[site] # None => intake_best.sites[site].preco > 0
          /\ intake_best.melhor # None => intake_best.melhor.preco > 0

C30_Witness ==
    /\ intake_pc = "best"
    /\ intake_source = "serpapi"
    /\ Len(raw_items) = 3
    /\ raw_items[1].preco = 0
    /\ raw_items[2].preco = NoPrice
    /\ raw_items[3].preco = 2
    /\ Len(intake_candidates) = 1
    /\ intake_best.melhor # None
    /\ intake_best.melhor.preco = 2

====
